---- MODULE Spec2Model ----
(***************************************************************************)
(* Model of src/src/channel.rs: the Channel composite extension (one       *)
(* constructor, an ordered queue of extenders, an ordered queue of         *)
(* modifiers), the TxGraph transaction graph and its GraphIter cursor.     *)
(*                                                                         *)
(* A BTreeMap is modelled as the sequence of its <<key, value>> entries in *)
(* iteration order; an Option is modelled as a sequence of length 0 (None) *)
(* or 1 (Some).  Extensions are trait objects whose code lives outside     *)
(* channel.rs: an extension is a record of its identity, its private       *)
(* state and the kind of change its apply makes to the graph, and whether  *)
(* a given call of it fails is chosen by the environment.                  *)
(***************************************************************************)
EXTENDS Integers, Sequences, FiniteSets, TLC

\* ------------------------------------------------------------------ bounds
\* Extension identities (the nomenclature N) are 0..MaxId, in their order.
MaxId == 1
\* Channel::with is given at most MaxWith extensions in its two iterables.
MaxWith == 2

\* The roles of stored transactions are 0..MaxRole, their indices
\* 0..MaxIndex, and a graph stores at most MaxLen transactions.
MaxRole == 2
MaxIndex == 1
MaxLen == 2

Ids == 0 .. MaxId
\* The payloads of peer messages, and the private states an extension can
\* be in: the state of a new extension, or the last payload it absorbed.
Msgs == {1}
States == {0} \cup Msgs
\* The identity reported for the nomenclature-level step, which has none.
NoId == 0 - 1

VARIABLES
    constructor,    \* Channel.constructor
    extenders,      \* Channel.extenders
    modifiers,      \* Channel.modifiers
    tx_graph,       \* the TxGraph handed to Channel::apply
    op,             \* the operation that produced this state
    args,           \* the input of that operation
    calls,          \* the calls that operation made on its children, in order
    result,         \* the Result that operation returned
    snapshot,       \* the IntegralState that operation returned, if it is a state query
    before_modifiers, \* Some(the TxGraph as the modifier phase of that apply found it)
    ret,            \* the value a TxGraph operation returned
    iter,           \* Some(the GraphIter alive on tx_graph)
    yielded,        \* what the calls of next on that GraphIter returned, in order
    earlier,        \* what the GraphIter before it on the same graph returned
    overflow_checks \* the build panics on integer overflow (it wraps otherwise)

vars == <<constructor, extenders, modifiers, tx_graph, op, args, calls,
          result, snapshot, before_modifiers, ret, iter, yielded, earlier,
          overflow_checks>>

\* The channel's side of the state, and the graph's.
channelVars == <<constructor, extenders, modifiers, calls, result, snapshot,
                 before_modifiers>>
graphVars == <<ret, iter, yielded, earlier, overflow_checks>>

\* ---------------------------------------------------------------- Result
OkRes == [ok |-> TRUE, by |-> <<"none", NoId>>]
\* Error::Extension(..) as reported by the child called at `step`.
ErrRes(step) == [ok |-> FALSE, by |-> step]

\* ---------------------------------------------------------------- BTreeMap
\* BTreeMap::insert: the entry replaces the one with an equal key, or is
\* placed where the keys stay ascending.
BTreeInsert_Append(m, k, v) == Append(m, <<k, v>>)

RECURSIVE BTreeInsert(_, _, _)
BTreeInsert(m, k, v) ==
    IF m = <<>> THEN << <<k, v>> >>
    ELSE IF Head(m)[1] = k THEN << <<k, v>> >> \o Tail(m)
    ELSE IF Head(m)[1] > k THEN << <<k, v>> >> \o m
    ELSE << Head(m) >> \o BTreeInsert(Tail(m), k, v)

\* BTreeMap::get: Some(value) or None.
RECURSIVE BTreeGet(_, _)
BTreeGet(m, k) ==
    IF m = <<>> THEN <<>>
    ELSE IF Head(m)[1] = k THEN << Head(m)[2] >>
    ELSE BTreeGet(Tail(m), k)

Keys(m) == { m[i][1] : i \in 1 .. Len(m) }
KeySeq(m) == [i \in 1 .. Len(m) |-> m[i][1]]
Ascending(s) == \A i \in 1 .. Len(s) - 1 : s[i] < s[i + 1]

\* ---------------------------------------------------------------- extensions
\* What an extension's apply does to the graph.
\* "base" sets the commitment outputs, "out" adds one commitment output,
\* "tx" stores one transaction, "sort" reorders the commitment outputs, and
\* "none" leaves the graph alone.
Apps == {"none", "base", "out", "tx", "sort"}

Extension(id, st, app) == [id |-> id, st |-> st, app |-> app]

\* Extension::identity
Identity(e) == e.id

\* Extension::extension_state of a child: its own private state.
ExtensionStateOf(e) == e.st

\* A peer message: its payload, the steps that reject it, and the identity
\* of the extender the nomenclature adds on it (NoId: none).
Steps ==
    {<<"nom", NoId>>} \cup ({"ctor", "ext", "mod"} \X Ids)

PhaseRank(p) ==
    CASE p = "nom" -> 0 [] p = "ctor" -> 1 [] p = "ext" -> 2 [] OTHER -> 3

\* The steps at or after step s in (phase, identity) order.
UpFrom(s) ==
    { t \in Steps : \/ PhaseRank(t[1]) > PhaseRank(s[1])
                    \/ t[1] = s[1] /\ t[2] >= s[2] }

\* The sets of rejecting steps the environment chooses from: the first
\* rejecting step decides a call, and every later step rejects as well.
BadSets == {{}} \cup { UpFrom(s) : s \in Steps }

\* The extender a nomenclature adds, when it adds one, has the last identity.
NomAdds == {NoId, MaxId}

Messages ==
    { [val |-> v, bad |-> b, add |-> a] :
        v \in Msgs, b \in BadSets, a \in NomAdds }

\* Extension::update_from_peer of a child called at `phase`: it rejects the
\* message, or absorbs it into its state.
ExtUpdateFromPeer(e, message, phase) ==
    IF <<phase, Identity(e)>> \in message.bad
    THEN [e |-> e, res |-> ErrRes(<<phase, Identity(e)>>)]
    ELSE [e |-> [e EXCEPT !.st = message.val], res |-> OkRes]

Call(phase, id, res) == [step |-> <<phase, id>>, ok |-> res.ok]

\* ---------------------------------------------------------------- Channel
Channel(c, exts, mods) ==
    [constructor |-> c, extenders |-> exts, modifiers |-> mods]

Self == Channel(constructor, extenders, modifiers)

\* The fold of Channel::with over one iterable.
RECURSIVE FoldQueue(_, _)
FoldQueue(queue, items) ==
    IF items = <<>> THEN queue
    ELSE FoldQueue(BTreeInsert(queue, Identity(Head(items)), Head(items)),
                   Tail(items))

With(c, exts, mods) ==
    Channel(c, FoldQueue(<<>>, exts), FoldQueue(<<>>, mods))

add_extension(ch, extension) ==
    [ch EXCEPT !.extenders = BTreeInsert(@, Identity(extension), extension)]

add_modifier(ch, modifier) ==
    [ch EXCEPT !.modifiers = BTreeInsert(@, Identity(modifier), modifier)]

\* N::update_from_peer(self, message): the nomenclature rejects the message,
\* or reacts to it, which may add an extender to the channel.
NomUpdateFromPeer(ch, message) ==
    IF <<"nom", NoId>> \in message.bad
    THEN [ch |-> ch, res |-> ErrRes(<<"nom", NoId>>)]
    ELSE IF message.add = NoId
    THEN [ch |-> ch, res |-> OkRes]
    ELSE [ch |-> add_extension(ch, Extension(message.add, 0, "none")),
          res |-> OkRes]

\* A try_for_each that walks the queue from its last entry to its first.
RECURSIVE TryForEachUpdate_Descending(_, _, _)
TryForEachUpdate_Descending(queue, message, phase) ==
    IF queue = <<>> THEN [queue |-> <<>>, calls |-> <<>>, res |-> OkRes]
    ELSE LET n == Len(queue)
             r == ExtUpdateFromPeer(queue[n][2], message, phase)
             c == Call(phase, Identity(queue[n][2]), r.res)
             front == SubSeq(queue, 1, n - 1)
         IN  IF ~r.res.ok
             THEN [queue |-> front \o << <<queue[n][1], r.e>> >>,
                   calls |-> <<c>>, res |-> r.res]
             ELSE LET rest == TryForEachUpdate_Descending(front, message, phase)
                  IN  [queue |-> rest.queue \o << <<queue[n][1], r.e>> >>,
                       calls |-> <<c>> \o rest.calls, res |-> rest.res]

\* iter_mut().try_for_each(|(_, e)| e.update_from_peer(message))
RECURSIVE TryForEachUpdate(_, _, _)
TryForEachUpdate(queue, message, phase) ==
    IF queue = <<>> THEN [queue |-> <<>>, calls |-> <<>>, res |-> OkRes]
    ELSE LET k == Head(queue)[1]
             r == ExtUpdateFromPeer(Head(queue)[2], message, phase)
             c == Call(phase, Identity(Head(queue)[2]), r.res)
         IN  IF ~r.res.ok
             THEN [queue |-> << <<k, r.e>> >> \o Tail(queue),
                   calls |-> <<c>>, res |-> r.res]
             ELSE LET rest == TryForEachUpdate(Tail(queue), message, phase)
                  IN  [queue |-> << <<k, r.e>> >> \o rest.queue,
                       calls |-> <<c>> \o rest.calls, res |-> rest.res]

\* An update_from_peer that goes on to the modifiers after an extender failed
\* and returns the first error at the end.
ChannelUpdateFromPeer_NoShortCircuit(ch, message) ==
    LET n == NomUpdateFromPeer(ch, message)
        nc == <<Call("nom", NoId, n.res)>>
    IN
    IF ~n.res.ok THEN [ch |-> n.ch, calls |-> nc, res |-> n.res]
    ELSE
    LET c == ExtUpdateFromPeer(n.ch.constructor, message, "ctor")
        cc == nc \o <<Call("ctor", Identity(n.ch.constructor), c.res)>>
        ch1 == [n.ch EXCEPT !.constructor = c.e]
    IN
    IF ~c.res.ok THEN [ch |-> ch1, calls |-> cc, res |-> c.res]
    ELSE
    LET e == TryForEachUpdate(ch1.extenders, message, "ext")
        m == TryForEachUpdate(ch1.modifiers, message, "mod")
    IN  [ch |-> [ch1 EXCEPT !.extenders = e.queue, !.modifiers = m.queue],
         calls |-> cc \o e.calls \o m.calls,
         res |-> IF ~e.res.ok THEN e.res ELSE m.res]

\* Channel::update_from_peer
ChannelUpdateFromPeer(ch, message) ==
    LET n == NomUpdateFromPeer(ch, message)
        nc == <<Call("nom", NoId, n.res)>>
    IN
    IF ~n.res.ok THEN [ch |-> n.ch, calls |-> nc, res |-> n.res]
    ELSE
    LET c == ExtUpdateFromPeer(n.ch.constructor, message, "ctor")
        cc == nc \o <<Call("ctor", Identity(n.ch.constructor), c.res)>>
        ch1 == [n.ch EXCEPT !.constructor = c.e]
    IN
    IF ~c.res.ok THEN [ch |-> ch1, calls |-> cc, res |-> c.res]
    ELSE
    LET e == TryForEachUpdate(ch1.extenders, message, "ext")
        ch2 == [ch1 EXCEPT !.extenders = e.queue]
    IN
    IF ~e.res.ok THEN [ch |-> ch2, calls |-> cc \o e.calls, res |-> e.res]
    ELSE
    LET m == TryForEachUpdate(ch2.modifiers, message, "mod")
        ch3 == [ch2 EXCEPT !.modifiers = m.queue]
    IN
    IF ~m.res.ok
    THEN [ch |-> ch3, calls |-> cc \o e.calls \o m.calls, res |-> m.res]
    ELSE [ch |-> ch3, calls |-> cc \o e.calls \o m.calls, res |-> OkRes]

\* for_each(|(id, e)| data.insert(*id, e.extension_state()))
RECURSIVE InsertStates(_, _)
InsertStates(data, queue) ==
    IF queue = <<>> THEN data
    ELSE InsertStates(
             BTreeInsert(data, Head(queue)[1], ExtensionStateOf(Head(queue)[2])),
             Tail(queue))

\* Channel::extension_state
ChannelExtensionState(ch) ==
    LET data == BTreeInsert(<<>>, Identity(ch.constructor),
                            ExtensionStateOf(ch.constructor))
    IN  InsertStates(InsertStates(data, ch.extenders), ch.modifiers)

\* A channel_state that inserts the modifiers before the extenders.
ChannelChannelState_ExtendersLast(ch) ==
    LET data == BTreeInsert(<<>>, Identity(ch.constructor),
                            ExtensionStateOf(ch.constructor))
    IN  InsertStates(InsertStates(data, ch.modifiers), ch.extenders)

\* Channel::channel_state
ChannelChannelState(ch) ==
    LET data == BTreeInsert(<<>>, Identity(ch.constructor),
                            ExtensionStateOf(ch.constructor))
    IN  InsertStates(InsertStates(data, ch.extenders), ch.modifiers)

\* ---------------------------------------------------------------- TxGraph
\* A transaction, and the Psbt that wraps it (Psbt::from_unsigned_tx).
Transaction(version, lock_time, input, output) ==
    [version |-> version, lock_time |-> lock_time, input |-> input,
     output |-> output]

\* The stored transaction number v: transactions differ in their lock time.
PsbtOf(v) == Transaction(2, v, <<>>, <<>>)

TxOut(value, script_pubkey) ==
    [value |-> value, script_pubkey |-> script_pubkey]

\* TxGraph::default
TxGraphDefault ==
    [funding_parties |-> 0, funding_threshold |-> 0,
     funding_tx |-> Transaction(2, 0, <<>>, <<>>),
     funding_outpoint |-> 0, commitment_outpoint |-> 0,
     cmt_version |-> 2, cmt_locktime |-> 0, cmt_sequence |-> 0,
     cmt_outs |-> <<>>, graph |-> <<>>]

\* The largest sequence number (0xFFFFFFFF in the u32 of the code), as the
\* largest integer TLC has.
SequenceFinal == 2147483647

\* A TxGraph as StrictDecode reads it from a stored channel: the funding is
\* known, and the commitment pays two outputs.
TxGraphDecoded ==
    [funding_parties |-> 2, funding_threshold |-> 2,
     funding_tx |-> Transaction(2, 0, <<>>, << TxOut(3, 0) >>),
     funding_outpoint |-> 1, commitment_outpoint |-> 2,
     cmt_version |-> 2, cmt_locktime |-> 0, cmt_sequence |-> SequenceFinal,
     cmt_outs |-> << TxOut(2, 1), TxOut(1, 2) >>, graph |-> <<>>]

\* TxGraph::tx
Tx(g, role, index) ==
    LET v == BTreeGet(g.graph, role)
    IN  IF v = <<>> THEN <<>> ELSE BTreeGet(v[1], index)

\* An insert_tx that replaces the role's map by one holding only the new entry.
InsertTx_DropsRole(g, role, index, psbt) ==
    [g |-> [g EXCEPT !.graph = BTreeInsert(@, role, << <<index, psbt>> >>)],
     old |-> Tx(g, role, index)]

\* An insert_tx that keeps the transaction already stored at (role, index).
InsertTx_KeepsOld(g, role, index, psbt) ==
    LET v == BTreeGet(g.graph, role)
        map == IF v = <<>> THEN <<>> ELSE v[1]
        old == BTreeGet(map, index)
    IN  [g |-> IF old # <<>> THEN g
               ELSE [g EXCEPT !.graph =
                        BTreeInsert(@, role, BTreeInsert(map, index, psbt))],
         old |-> old]

\* TxGraph::insert_tx: the graph after it, and the Option it returns.
InsertTx(g, role, index, psbt) ==
    LET v == BTreeGet(g.graph, role)
        map == IF v = <<>> THEN <<>> ELSE v[1]
    IN  [g |-> [g EXCEPT !.graph =
                    BTreeInsert(@, role, BTreeInsert(map, index, psbt))],
         old |-> BTreeGet(map, index)]

\* A len that counts the roles of the graph, not the transactions under them.
TxGraphLen_CountsRoles(g) == Len(g.graph)

\* TxGraph::len
RECURSIVE SumLen(_, _)
SumLen(sum, m) ==
    IF m = <<>> THEN sum ELSE SumLen(sum + Len(Head(m)[2]), Tail(m))

TxGraphLen(g) == SumLen(0, g.graph)

\* A last_index that is one more than the largest index stored under the role.
LastIndex_LargestPlusOne(g, role) ==
    LET v == BTreeGet(g.graph, role)
    IN  IF v = <<>> \/ v[1] = <<>> THEN 0 ELSE v[1][Len(v[1])][1] + 1

\* TxGraph::last_index
LastIndex(g, role) ==
    LET v == BTreeGet(g.graph, role)
    IN  IF v = <<>> THEN 0 ELSE Len(v[1])

\* BTreeMap::values
Values(m) == [i \in 1 .. Len(m) |-> m[i][2]]

\* A flat_map that walks the outer map from its last role to its first.
RECURSIVE FlatValues_RolesDescending(_)
FlatValues_RolesDescending(maps) ==
    IF maps = <<>> THEN <<>>
    ELSE FlatValues_RolesDescending(Tail(maps)) \o Values(Head(maps))

\* flat_map(|v| v.values().cloned()) over the values of the outer map
RECURSIVE FlatValues(_)
FlatValues(maps) ==
    IF maps = <<>> THEN <<>>
    ELSE Values(Head(maps)) \o FlatValues(Tail(maps))

\* A render_cmt whose input spends the commitment outpoint.
RenderCmt_SpendsCommitment(g) ==
    Transaction(g.cmt_version, g.cmt_locktime,
                << [previous_output |-> g.commitment_outpoint,
                    script_sig |-> <<>>,
                    sequence |-> g.cmt_sequence,
                    witness |-> <<>>] >>,
                g.cmt_outs)

\* TxGraph::render_cmt
RenderCmt(g) ==
    Transaction(g.cmt_version, g.cmt_locktime,
                << [previous_output |-> g.funding_outpoint,
                    script_sig |-> <<>>,
                    sequence |-> g.cmt_sequence,
                    witness |-> <<>>] >>,
                g.cmt_outs)

\* TxGraph::render
Render(g) == << RenderCmt(g) >> \o FlatValues(Values(g.graph))

\* GraphIter::with
GraphIterWith == [curr_role |-> 0, curr_index |-> 0]

\* The u16 of a role is modelled with MaxRole as its largest value: a role
\* one above it does not fit, and the addition that makes it overflows.
RoleModulus == MaxRole + 1

\* A next that reports the index at which it found the transaction.
GraphIterNext_IndexFound(g, it) ==
    LET first == Tx(g, it.curr_role, it.curr_index)
        role == IF first = <<>> THEN (it.curr_role + 1) % RoleModulus
                ELSE it.curr_role
        tx == IF first = <<>> THEN Tx(g, role, 0) ELSE first
        index == (IF first = <<>> THEN 0 ELSE it.curr_index) + 1
    IN  [it |-> [curr_role |-> role, curr_index |-> index],
         item |-> IF tx = <<>> THEN <<>>
                  ELSE << <<role, index - 1, tx[1]>> >>,
         overflow |-> first = <<>> /\ it.curr_role + 1 >= RoleModulus]

\* A next that, on a miss, moves to the next role without resetting the index.
GraphIterNext_KeepsIndex(g, it) ==
    LET first == Tx(g, it.curr_role, it.curr_index)
        role == IF first = <<>> THEN (it.curr_role + 1) % RoleModulus
                ELSE it.curr_role
        tx == IF first = <<>> THEN Tx(g, role, it.curr_index) ELSE first
        index == it.curr_index + 1
    IN  [it |-> [curr_role |-> role, curr_index |-> index],
         item |-> IF tx = <<>> THEN <<>> ELSE << <<role, index, tx[1]>> >>,
         overflow |-> first = <<>> /\ it.curr_role + 1 >= RoleModulus]

\* GraphIter::next: the cursor after the call and the Option it returns, and
\* whether `self.curr_role += 1` overflowed on the way.  The cursor and the
\* item are those of a build that wraps on overflow; a build that checks
\* overflow panics at the addition instead.
GraphIterNext(g, it) ==
    LET first == Tx(g, it.curr_role, it.curr_index)
        role == IF first = <<>> THEN (it.curr_role + 1) % RoleModulus
                ELSE it.curr_role
        tx == IF first = <<>> THEN Tx(g, role, 0) ELSE first
        index == (IF first = <<>> THEN 0 ELSE it.curr_index) + 1
    IN  [it |-> [curr_role |-> role, curr_index |-> index],
         item |-> IF tx = <<>> THEN <<>> ELSE << <<role, index, tx[1]>> >>,
         overflow |-> first = <<>> /\ it.curr_role + 1 >= RoleModulus]

\* A vec_mut that numbers its triples the way GraphIter::next does.
RECURSIVE FlatTriples_IndexPlusOne(_)
FlatTriples_IndexPlusOne(graph) ==
    IF graph = <<>> THEN <<>>
    ELSE LET role == Head(graph)[1]
             map == Head(graph)[2]
         IN  [j \in 1 .. Len(map) |-> <<role, map[j][1] + 1, map[j][2]>>]
                 \o FlatTriples_IndexPlusOne(Tail(graph))

VecMut_IndexPlusOne(g) == FlatTriples_IndexPlusOne(g.graph)

\* flat_map(|(role, map)| map.iter_mut().map(|(index, tx)| (*role, *index, tx)))
RECURSIVE FlatTriples(_)
FlatTriples(graph) ==
    IF graph = <<>> THEN <<>>
    ELSE LET role == Head(graph)[1]
             map == Head(graph)[2]
         IN  [j \in 1 .. Len(map) |-> <<role, map[j][1], map[j][2]>>]
                 \o FlatTriples(Tail(graph))

\* TxGraph::vec_mut
VecMut(g) == FlatTriples(g.graph)

\* ---------------------------------------------------------------- apply
\* The commitment output and the transaction an extension contributes.
OutOf(e) == TxOut(0, Identity(e))
BaseOuts(e) == << TxOut(2, Identity(e)), TxOut(1, Identity(e)) >>
TxOf(e) == PsbtOf(1 + Identity(e))

InSeq(x, s) == \E i \in 1 .. Len(s) : s[i] = x

\* The outputs in ascending (value, script) order.
RECURSIVE SortOuts(_)
SortOuts(outs) ==
    IF outs = <<>> THEN <<>>
    ELSE LET least == CHOOSE i \in 1 .. Len(outs) :
                 \A j \in 1 .. Len(outs) :
                     \/ outs[i].value < outs[j].value
                     \/ /\ outs[i].value = outs[j].value
                        /\ outs[i].script_pubkey <= outs[j].script_pubkey
             rest == [j \in 1 .. Len(outs) - 1 |->
                         IF j < least THEN outs[j] ELSE outs[j + 1]]
         IN  <<outs[least]>> \o SortOuts(rest)

\* ChannelExtension::apply of a child called at `phase`, when the steps in
\* `bad` fail: it fails and leaves the graph alone, or makes its change.
ExtApply(e, g, phase, bad) ==
    IF <<phase, Identity(e)>> \in bad
    THEN [g |-> g, res |-> ErrRes(<<phase, Identity(e)>>)]
    ELSE [res |-> OkRes,
          g |-> CASE e.app = "base" -> [g EXCEPT !.cmt_outs = BaseOuts(e)]
                  [] e.app = "out" ->
                         IF InSeq(OutOf(e), g.cmt_outs) THEN g
                         ELSE [g EXCEPT !.cmt_outs = Append(@, OutOf(e))]
                  [] e.app = "tx" -> InsertTx(g, Identity(e), 0, TxOf(e)).g
                  [] e.app = "sort" -> [g EXCEPT !.cmt_outs = SortOuts(@)]
                  [] OTHER -> g]

\* A try_for_each that walks the queue from its last entry to its first.
RECURSIVE TryForEachApply_Descending(_, _, _, _)
TryForEachApply_Descending(queue, g, phase, bad) ==
    IF queue = <<>> THEN [g |-> g, calls |-> <<>>, res |-> OkRes]
    ELSE LET n == Len(queue)
             r == ExtApply(queue[n][2], g, phase, bad)
             c == Call(phase, Identity(queue[n][2]), r.res)
         IN  IF ~r.res.ok THEN [g |-> r.g, calls |-> <<c>>, res |-> r.res]
             ELSE LET rest == TryForEachApply_Descending(
                                  SubSeq(queue, 1, n - 1), r.g, phase, bad)
                  IN  [g |-> rest.g, calls |-> <<c>> \o rest.calls,
                       res |-> rest.res]

\* iter_mut().try_for_each(|(_, e)| e.apply(tx_graph))
RECURSIVE TryForEachApply(_, _, _, _)
TryForEachApply(queue, g, phase, bad) ==
    IF queue = <<>> THEN [g |-> g, calls |-> <<>>, res |-> OkRes]
    ELSE LET r == ExtApply(Head(queue)[2], g, phase, bad)
             c == Call(phase, Identity(Head(queue)[2]), r.res)
         IN  IF ~r.res.ok THEN [g |-> r.g, calls |-> <<c>>, res |-> r.res]
             ELSE LET rest == TryForEachApply(Tail(queue), r.g, phase, bad)
                  IN  [g |-> rest.g, calls |-> <<c>> \o rest.calls,
                       res |-> rest.res]

\* An apply that goes on to the modifiers after an extender failed and
\* returns the first error at the end.
ChannelApply_NoShortCircuit(ch, g, bad) ==
    LET c == ExtApply(ch.constructor, g, "ctor", bad)
        cc == <<Call("ctor", Identity(ch.constructor), c.res)>>
    IN
    IF ~c.res.ok THEN [g |-> c.g, calls |-> cc, res |-> c.res, mid |-> <<>>]
    ELSE
    LET e == TryForEachApply(ch.extenders, c.g, "ext", bad)
        m == TryForEachApply(ch.modifiers, e.g, "mod", bad)
    IN  [g |-> m.g, calls |-> cc \o e.calls \o m.calls,
         res |-> IF ~e.res.ok THEN e.res ELSE m.res, mid |-> <<e.g>>]

\* An apply that runs the modifiers before the extenders.
ChannelApply_ModifiersFirst(ch, g, bad) ==
    LET c == ExtApply(ch.constructor, g, "ctor", bad)
        cc == <<Call("ctor", Identity(ch.constructor), c.res)>>
    IN
    IF ~c.res.ok THEN [g |-> c.g, calls |-> cc, res |-> c.res, mid |-> <<>>]
    ELSE
    LET m == TryForEachApply(ch.modifiers, c.g, "mod", bad)
    IN
    IF ~m.res.ok
    THEN [g |-> m.g, calls |-> cc \o m.calls, res |-> m.res, mid |-> <<c.g>>]
    ELSE
    LET e == TryForEachApply(ch.extenders, m.g, "ext", bad)
    IN  [g |-> e.g, calls |-> cc \o m.calls \o e.calls, res |-> e.res,
         mid |-> <<c.g>>]

\* Channel::apply: the graph after it, the calls it made, what it returned,
\* and Some(the graph as the modifier phase found it).
ChannelApply(ch, g, bad) ==
    LET c == ExtApply(ch.constructor, g, "ctor", bad)
        cc == <<Call("ctor", Identity(ch.constructor), c.res)>>
    IN
    IF ~c.res.ok THEN [g |-> c.g, calls |-> cc, res |-> c.res, mid |-> <<>>]
    ELSE
    LET e == TryForEachApply(ch.extenders, c.g, "ext", bad)
    IN
    IF ~e.res.ok
    THEN [g |-> e.g, calls |-> cc \o e.calls, res |-> e.res, mid |-> <<>>]
    ELSE
    LET m == TryForEachApply(ch.modifiers, e.g, "mod", bad)
    IN  [g |-> m.g, calls |-> cc \o e.calls \o m.calls, res |-> m.res,
         mid |-> <<e.g>>]

\* ---------------------------------------------------------------- Spec
\* The extensions a caller hands to the channel.
Fresh == { Extension(i, s, "none") : i \in Ids, s \in States }

SeqsUpTo(S, n) == UNION { [1 .. k -> S] : k \in 0 .. n }

\* The state after Channel::with(c, exts, mods).
Init ==
    \E c \in Fresh, k \in 0 .. MaxWith :
      \E exts \in SeqsUpTo(Fresh, k), mods \in SeqsUpTo(Fresh, MaxWith - k) :
        /\ constructor = With(c, exts, mods).constructor
        /\ extenders = With(c, exts, mods).extenders
        /\ modifiers = With(c, exts, mods).modifiers
        /\ tx_graph = TxGraphDefault
        /\ op = "with"
        /\ args = [exts |-> exts, mods |-> mods]
        /\ calls = <<>>
        /\ result = OkRes
        /\ snapshot = <<>>
        /\ before_modifiers = <<>>
        /\ ret = <<>>
        /\ iter = <<>>
        /\ yielded = <<>>
        /\ earlier = <<>>
        /\ overflow_checks = FALSE

SetChannel(ch) ==
    /\ constructor' = ch.constructor
    /\ extenders' = ch.extenders
    /\ modifiers' = ch.modifiers

AddExtensionOf(S) ==
    \E e \in S :
        /\ SetChannel(add_extension(Self, e))
        /\ op' = "add_extension"
        /\ args' = e
        /\ calls' = <<>>
        /\ result' = OkRes
        /\ snapshot' = <<>>
        /\ UNCHANGED <<tx_graph, before_modifiers, graphVars>>

AddModifierOf(S) ==
    \E e \in S :
        /\ SetChannel(add_modifier(Self, e))
        /\ op' = "add_modifier"
        /\ args' = e
        /\ calls' = <<>>
        /\ result' = OkRes
        /\ snapshot' = <<>>
        /\ UNCHANGED <<tx_graph, before_modifiers, graphVars>>

AddExtension == AddExtensionOf(Fresh)

AddModifier == AddModifierOf(Fresh)

UpdateFromPeer ==
    \E message \in Messages :
        LET r == ChannelUpdateFromPeer(Self, message) IN
        /\ SetChannel(r.ch)
        /\ op' = "update_from_peer"
        /\ args' = [val |-> message.val, add |-> message.add]
        /\ calls' = r.calls
        /\ result' = r.res
        /\ snapshot' = <<>>
        /\ UNCHANGED <<tx_graph, before_modifiers, graphVars>>

ExtensionState ==
    /\ snapshot' = ChannelExtensionState(Self)
    /\ op' = "extension_state"
    /\ args' = 0
    /\ calls' = <<>>
    /\ result' = OkRes
    /\ UNCHANGED <<constructor, extenders, modifiers, tx_graph, before_modifiers,
                   graphVars>>

ChannelState ==
    /\ snapshot' = ChannelChannelState(Self)
    /\ op' = "channel_state"
    /\ args' = 0
    /\ calls' = <<>>
    /\ result' = OkRes
    /\ UNCHANGED <<constructor, extenders, modifiers, tx_graph, before_modifiers,
                   graphVars>>

Next ==
    \/ AddExtension
    \/ AddModifier
    \/ UpdateFromPeer
    \/ ExtensionState
    \/ ChannelState

Spec == Init /\ [][Next]_vars

\* ---------------------------------------------------------------- SpecApply
\* The extensions of a channel that builds a graph: a constructor that sets
\* the commitment outputs, and extenders and modifiers of every other kind.
Builders == { Extension(i, 0, a) : i \in Ids, a \in {"out", "tx", "sort"} }

\* The constructor of such a channel, which has the first identity.
BaseConstructor == Extension(0, 0, "base")

ApplySteps == {<<"ctor", Identity(BaseConstructor)>>} \cup ({"ext", "mod"} \X Ids)

ApplyBadSets == {{}} \cup { UpFrom(s) \cap ApplySteps : s \in ApplySteps }

\* The state after Channel::with(c, exts, mods) and TxGraph::default().
InitApply ==
    \E k \in 0 .. MaxWith :
      \E exts \in SeqsUpTo(Builders, k), mods \in SeqsUpTo(Builders, MaxWith - k) :
        LET ch == With(BaseConstructor, exts, mods) IN
        /\ constructor = ch.constructor
        /\ extenders = ch.extenders
        /\ modifiers = ch.modifiers
        /\ tx_graph = TxGraphDefault
        /\ op = "with"
        /\ args = [exts |-> exts, mods |-> mods]
        /\ calls = <<>>
        /\ result = OkRes
        /\ snapshot = <<>>
        /\ before_modifiers = <<>>
        /\ ret = <<>>
        /\ iter = <<>>
        /\ yielded = <<>>
        /\ earlier = <<>>
        /\ overflow_checks = FALSE

\* channel.apply(&mut tx_graph)
Apply ==
    \E bad \in ApplyBadSets :
        LET r == ChannelApply(Self, tx_graph, bad) IN
        /\ tx_graph' = r.g
        /\ op' = "apply"
        /\ args' = 0
        /\ calls' = r.calls
        /\ result' = r.res
        /\ before_modifiers' = r.mid
        /\ UNCHANGED <<constructor, extenders, modifiers, snapshot, graphVars>>

\* The caller starts over with TxGraph::default().
NewGraph ==
    /\ tx_graph' = TxGraphDefault
    /\ op' = "default"
    /\ args' = 0
    /\ calls' = <<>>
    /\ result' = OkRes
    /\ before_modifiers' = <<>>
    /\ UNCHANGED <<constructor, extenders, modifiers, snapshot, graphVars>>

\* The caller composes the channel before it builds a graph with it.
AddBuilder == tx_graph = TxGraphDefault /\ AddExtensionOf(Builders)

AddBuilderModifier == tx_graph = TxGraphDefault /\ AddModifierOf(Builders)

NextApply ==
    \/ AddBuilder
    \/ AddBuilderModifier
    \/ Apply
    \/ NewGraph

SpecApply == InitApply /\ [][NextApply]_vars

\* ---------------------------------------------------------------- SpecGraph
Roles == 0 .. MaxRole
Indices == 0 .. MaxIndex
Psbts == { PsbtOf(1), PsbtOf(2) }

\* What belongs to a GraphIter and to the build.
iterVars == <<iter, yielded, earlier, overflow_checks>>

\* The state after TxGraph::default(), or after a TxGraph was decoded.
InitGraph ==
    /\ constructor = BaseConstructor
    /\ extenders = <<>>
    /\ modifiers = <<>>
    /\ tx_graph \in {TxGraphDefault, TxGraphDecoded}
    /\ op = "default"
    /\ args = 0
    /\ calls = <<>>
    /\ result = OkRes
    /\ snapshot = <<>>
    /\ before_modifiers = <<>>
    /\ ret = <<>>
    /\ iter = <<>>
    /\ yielded = <<>>
    /\ earlier = <<>>
    /\ overflow_checks = FALSE

\* tx_graph.insert_tx(role, index, psbt)
InsertTxOp ==
    \E role \in Roles, index \in Indices, psbt \in Psbts :
        LET r == InsertTx(tx_graph, role, index, psbt) IN
        /\ TxGraphLen(r.g) <= MaxLen
        /\ tx_graph' = r.g
        /\ ret' = r.old
        /\ op' = "insert_tx"
        /\ args' = [role |-> role, index |-> index, psbt |-> psbt]
        /\ UNCHANGED <<channelVars, iterVars>>

\* tx_graph.tx(role, index)
TxOp ==
    \E role \in Roles, index \in Indices :
        /\ ret' = Tx(tx_graph, role, index)
        /\ op' = "tx"
        /\ args' = [role |-> role, index |-> index]
        /\ UNCHANGED <<tx_graph, channelVars, iterVars>>

\* tx_graph.render()
RenderOp ==
    /\ ret' = Render(tx_graph)
    /\ op' = "render"
    /\ args' = 0
    /\ UNCHANGED <<tx_graph, channelVars, iterVars>>

\* tx_graph.len()
LenOp ==
    /\ ret' = TxGraphLen(tx_graph)
    /\ op' = "len"
    /\ args' = 0
    /\ UNCHANGED <<tx_graph, channelVars, iterVars>>

\* tx_graph.last_index(role)
LastIndexOp ==
    \E role \in Roles :
        /\ ret' = LastIndex(tx_graph, role)
        /\ op' = "last_index"
        /\ args' = [role |-> role]
        /\ UNCHANGED <<tx_graph, channelVars, iterVars>>

\* tx_graph.vec_mut()
VecMutOp ==
    /\ ret' = VecMut(tx_graph)
    /\ op' = "vec_mut"
    /\ args' = 0
    /\ UNCHANGED <<tx_graph, channelVars, iterVars>>

NextGraph ==
    \/ InsertTxOp
    \/ TxOp
    \/ RenderOp
    \/ LenOp
    \/ LastIndexOp
    \/ VecMutOp

SpecGraph == InitGraph /\ [][NextGraph]_vars

\* ---------------------------------------------------------------- SpecIter
\* The transaction stored at cell c = <<role, index>> of a graph that is
\* iterated: no two cells hold the same one.
CellPsbt(c) == PsbtOf(1 + c[1] * (MaxIndex + 1) + c[2])

\* TxGraph::default() followed by an insert_tx for every cell of the set.
RECURSIVE GraphOf(_)
GraphOf(cells) ==
    IF cells = {} THEN TxGraphDefault
    ELSE LET c == CHOOSE d \in cells : TRUE
         IN  InsertTx(GraphOf(cells \ {c}), c[1], c[2], CellPsbt(c)).g

\* A cursor is stepped at most this many times.
MaxCalls == RoleModulus + 2

\* A graph of at most one transaction per role value, built by insert_tx,
\* in a build that checks integer overflow or in one that does not.
InitIter ==
    \E cells \in SUBSET (Roles \X Indices), checks \in BOOLEAN :
        /\ Cardinality(cells) <= RoleModulus
        /\ constructor = BaseConstructor
        /\ extenders = <<>>
        /\ modifiers = <<>>
        /\ tx_graph = GraphOf(cells)
        /\ op = "insert_tx"
        /\ args = 0
        /\ calls = <<>>
        /\ result = OkRes
        /\ snapshot = <<>>
        /\ before_modifiers = <<>>
        /\ ret = <<>>
        /\ iter = <<>>
        /\ yielded = <<>>
        /\ earlier = <<>>
        /\ overflow_checks = checks

\* An iter whose cursor resumes where the one before it stood.
IterOp_Resumes ==
    /\ op # "panic"
    /\ iter' = IF iter = <<>> THEN << GraphIterWith >> ELSE iter
    /\ yielded' = <<>>
    /\ earlier' = yielded
    /\ ret' = <<>>
    /\ op' = "iter"
    /\ args' = 0
    /\ UNCHANGED <<tx_graph, channelVars, overflow_checks>>

\* tx_graph.iter(): a new cursor; the one before it, if any, is dropped.
IterOp ==
    /\ op # "panic"
    /\ iter' = << GraphIterWith >>
    /\ yielded' = <<>>
    /\ earlier' = yielded
    /\ ret' = <<>>
    /\ op' = "iter"
    /\ args' = 0
    /\ UNCHANGED <<tx_graph, channelVars, overflow_checks>>

\* iter.next(): where `self.curr_role += 1` overflows, a build that checks
\* overflow panics, and the cursor is lost with the thread.
NextOp ==
    /\ iter # <<>>
    /\ Len(yielded) < MaxCalls
    /\ LET r == GraphIterNext(tx_graph, iter[1]) IN
        IF r.overflow /\ overflow_checks
        THEN /\ iter' = <<>>
             /\ yielded' = yielded
             /\ ret' = <<>>
             /\ op' = "panic"
        ELSE /\ iter' = << r.it >>
             /\ yielded' = Append(yielded, r.item)
             /\ ret' = r.item
             /\ op' = "next"
    /\ args' = 0
    /\ UNCHANGED <<tx_graph, channelVars, earlier, overflow_checks>>

NextIter ==
    \/ IterOp
    \/ NextOp

SpecIter == InitIter /\ [][NextIter]_vars

\* ---------------------------------------------------------------- SpecCmt
\* The values the public commitment fields are set to.
CmtVersions == {1, 2}
CmtLocktimes == {0, 500}
CmtSequences == {0, SequenceFinal}
CmtOuts == { TxOut(2, 1), TxOut(1, 2) }

\* A default graph, a decoded one, or a decoded one with a stored transaction.
InitCmt ==
    /\ constructor = BaseConstructor
    /\ extenders = <<>>
    /\ modifiers = <<>>
    /\ tx_graph \in {TxGraphDefault, TxGraphDecoded,
                     InsertTx(TxGraphDecoded, 1, 0, PsbtOf(1)).g}
    /\ op = "default"
    /\ args = 0
    /\ calls = <<>>
    /\ result = OkRes
    /\ snapshot = <<>>
    /\ before_modifiers = <<>>
    /\ ret = <<>>
    /\ iter = <<>>
    /\ yielded = <<>>
    /\ earlier = <<>>
    /\ overflow_checks = FALSE

\* An assignment to one public field of tx_graph.
SetField(g) ==
    /\ tx_graph' = g
    /\ tx_graph' # tx_graph
    /\ ret' = <<>>
    /\ op' = "set"
    /\ args' = 0
    /\ UNCHANGED <<channelVars, iterVars>>

\* tx_graph.cmt_version = v
SetCmtVersion ==
    \E v \in CmtVersions : SetField([tx_graph EXCEPT !.cmt_version = v])

\* tx_graph.cmt_locktime = v
SetCmtLocktime ==
    \E v \in CmtLocktimes : SetField([tx_graph EXCEPT !.cmt_locktime = v])

\* tx_graph.cmt_sequence = v
SetCmtSequence ==
    \E v \in CmtSequences : SetField([tx_graph EXCEPT !.cmt_sequence = v])

\* tx_graph.cmt_outs.push(out), and tx_graph.cmt_outs.clear()
PushCmtOut ==
    \E out \in CmtOuts :
        /\ Len(tx_graph.cmt_outs) < 2
        /\ SetField([tx_graph EXCEPT !.cmt_outs = Append(@, out)])

ClearCmtOuts == SetField([tx_graph EXCEPT !.cmt_outs = <<>>])

\* tx_graph.render_cmt()
RenderCmtOp ==
    /\ ret' = RenderCmt(tx_graph)
    /\ op' = "render_cmt"
    /\ args' = 0
    /\ UNCHANGED <<tx_graph, channelVars, iterVars>>

NextCmt ==
    \/ SetCmtVersion
    \/ SetCmtLocktime
    \/ SetCmtSequence
    \/ PushCmtOut
    \/ ClearCmtOuts
    \/ RenderCmtOp
    \/ RenderOp

SpecCmt == InitCmt /\ [][NextCmt]_vars

\* ---------------------------------------------------------------- claims
\* The documented order of one fan-out over channel ch: the nomenclature,
\* the constructor, the extenders, the modifiers.
QueueSteps(phase, queue) ==
    [i \in 1 .. Len(queue) |-> <<phase, Identity(queue[i][2])>>]

Sequence(ch) ==
    << <<"nom", NoId>>, <<"ctor", Identity(ch.constructor)>> >>
        \o QueueSteps("ext", ch.extenders) \o QueueSteps("mod", ch.modifiers)

\* The extension of channel ch that is called at `step`.
AtStep(ch, step) ==
    CASE step[1] = "ctor" -> << ch.constructor >>
      [] step[1] = "ext" -> BTreeGet(ch.extenders, step[2])
      [] step[1] = "mod" -> BTreeGet(ch.modifiers, step[2])
      [] OTHER -> <<>>

\* C1: a call of Channel::update_from_peer on which no step fails calls the
\* nomenclature once, then the constructor once, then every extender once in
\* ascending identity order, then every modifier once in ascending identity
\* order; no extender is called after a modifier.
C1_UpdateOrder ==
    (op = "update_from_peer" /\ result.ok) =>
        LET ne == Len(extenders)
            nm == Len(modifiers)
        IN  /\ Len(calls) = 2 + ne + nm
            /\ \A i \in 1 .. Len(calls) : calls[i].ok
            /\ calls[1].step = <<"nom", NoId>>
            /\ calls[2].step = <<"ctor", Identity(constructor)>>
            /\ \A i \in 1 .. ne : calls[2 + i].step[1] = "ext"
            /\ \A i \in 1 .. nm : calls[2 + ne + i].step[1] = "mod"
            /\ { calls[2 + i].step[2] : i \in 1 .. ne } = Keys(extenders)
            /\ { calls[2 + ne + i].step[2] : i \in 1 .. nm } = Keys(modifiers)
            /\ \A i \in 1 .. ne - 1 :
                   calls[2 + i].step[2] < calls[2 + i + 1].step[2]
            /\ \A i \in 1 .. nm - 1 :
                   calls[2 + ne + i].step[2] < calls[2 + ne + i + 1].step[2]

C1_Witness ==
    /\ op = "update_from_peer"
    /\ result.ok
    /\ Len(extenders) >= 2
    /\ Len(modifiers) >= 2

\* C3: when a step of Channel::update_from_peer fails, the call returns the
\* error of that step, which is the last step called; the steps called are
\* the documented sequence up to it; every step before it succeeded and its
\* change (the absorbed payload, the extender the nomenclature added) is in
\* the channel after the call; the failing step and the steps never reached
\* left their extensions as they were.
C3_Step ==
    (op' = "update_from_peer" /\ ~result'.ok) =>
        LET n == Len(calls')
            after == Channel(constructor', extenders', modifiers')
            seq == Sequence(after)
        IN  /\ n >= 1
            /\ n <= Len(seq)
            /\ \A i \in 1 .. n : calls'[i].step = seq[i]
            /\ \A i \in 1 .. n - 1 : calls'[i].ok
            /\ ~calls'[n].ok
            /\ result' = ErrRes(calls'[n].step)
            /\ \A i \in 2 .. n - 1 :
                   ExtensionStateOf(AtStep(after, seq[i])[1]) = args'.val
            /\ (n > 1 /\ args'.add # NoId) =>
                   /\ args'.add \in Keys(extenders')
                   /\ \/ <<"ext", args'.add>> \in { seq[i] : i \in 2 .. n - 1 }
                      \/ ExtensionStateOf(
                             AtStep(after, <<"ext", args'.add>>)[1]) = 0
            /\ \A i \in n .. Len(seq) :
                   \/ AtStep(after, seq[i]) = AtStep(Self, seq[i])
                   \/ /\ seq[i] = <<"ext", args'.add>>
                      /\ n > 1
                   \/ seq[i][1] = "nom"

C3_FirstError == [][C3_Step]_vars

C3_Witness ==
    /\ op = "update_from_peer"
    /\ ~result.ok
    /\ result.by[1] = "mod"
    /\ Len(extenders) >= 2
    /\ Len(calls) < 2 + Len(extenders) + Len(modifiers)
    /\ \E i \in 1 .. Len(modifiers) : modifiers[i][2].st # args.val

\* C5: each queue holds at most one extension per identity, under that
\* identity, in ascending order; after Channel::with the holder of an
\* identity is the last entry of the iterable with that identity; after
\* add_extension (add_modifier) the holder of the new extension's identity is
\* the new extension, the other holders are as before and the modifiers
\* (extenders) and the constructor are untouched; no step removes an
\* identity from a queue.
QueueOk(queue) ==
    /\ Ascending(KeySeq(queue))
    /\ \A i \in 1 .. Len(queue) : Identity(queue[i][2]) = queue[i][1]

LastWins(items, queue) ==
    /\ Keys(queue) = { Identity(items[i]) : i \in 1 .. Len(items) }
    /\ \A i \in 1 .. Len(items) :
           (\A j \in i + 1 .. Len(items) : Identity(items[j]) # Identity(items[i]))
               => BTreeGet(queue, Identity(items[i])) = << items[i] >>

C5_State ==
    /\ QueueOk(extenders)
    /\ QueueOk(modifiers)
    /\ op = "with" =>
           /\ LastWins(args.exts, extenders)
           /\ LastWins(args.mods, modifiers)

Replaced(old, new, e) ==
    /\ BTreeGet(new, Identity(e)) = <<e>>
    /\ \A id \in Ids \ {Identity(e)} : BTreeGet(new, id) = BTreeGet(old, id)

C5_Step ==
    /\ Keys(extenders) \subseteq Keys(extenders')
    /\ Keys(modifiers) \subseteq Keys(modifiers')
    /\ op' = "add_extension" =>
           /\ Replaced(extenders, extenders', args')
           /\ modifiers' = modifiers
           /\ constructor' = constructor
    /\ op' = "add_modifier" =>
           /\ Replaced(modifiers, modifiers', args')
           /\ extenders' = extenders
           /\ constructor' = constructor

C5_LastWriteWins == []C5_State /\ [][C5_Step]_vars

C5_Witness ==
    /\ op = "add_extension"
    /\ Len(extenders) >= 2
    /\ Len(modifiers) >= 1
    /\ \E i \in 1 .. Len(modifiers) :
           /\ modifiers[i][1] = Identity(args)
           /\ modifiers[i][2] # args

\* C6: extension_state and channel_state return the same snapshot: its keys
\* are the constructor's identity and the identities of the extenders and of
\* the modifiers, in ascending order, and a key maps to the state of the
\* modifier of that identity, else of the extender of that identity, else of
\* the constructor; neither call changes the channel.
SnapshotOk(data, ch) ==
    /\ Ascending(KeySeq(data))
    /\ Keys(data) = {Identity(ch.constructor)} \cup Keys(ch.extenders)
                        \cup Keys(ch.modifiers)
    /\ \A i \in 1 .. Len(data) :
           LET k == data[i][1]
               m == BTreeGet(ch.modifiers, k)
               e == BTreeGet(ch.extenders, k)
           IN  data[i][2] =
                   IF m # <<>> THEN ExtensionStateOf(m[1])
                   ELSE IF e # <<>> THEN ExtensionStateOf(e[1])
                   ELSE ExtensionStateOf(ch.constructor)

C6_State ==
    /\ ChannelExtensionState(Self) = ChannelChannelState(Self)
    /\ op \in {"extension_state", "channel_state"} => SnapshotOk(snapshot, Self)

C6_Step ==
    op' \in {"extension_state", "channel_state"} =>
        UNCHANGED <<constructor, extenders, modifiers>>

C6_Snapshot == []C6_State /\ [][C6_Step]_vars

C6_Witness ==
    /\ op = "channel_state"
    /\ \E i \in 1 .. Len(extenders), j \in 1 .. Len(modifiers) :
           /\ extenders[i][1] = Identity(constructor)
           /\ modifiers[j][1] = Identity(constructor)
           /\ modifiers[j][2].st # extenders[i][2].st
           /\ extenders[i][2].st # constructor.st
    /\ Len(snapshot) = 2

\* The documented order of one Channel::apply over channel ch.
ApplySequence(ch) ==
    << <<"ctor", Identity(ch.constructor)>> >>
        \o QueueSteps("ext", ch.extenders) \o QueueSteps("mod", ch.modifiers)

StepsOf(log) == [i \in 1 .. Len(log) |-> log[i].step]

\* The extensions of ch called by the first n entries of a log.
Called(ch, log, n) == { AtStep(ch, log[i].step)[1] : i \in 1 .. n }

OutSet(g) == { g.cmt_outs[i] : i \in 1 .. Len(g.cmt_outs) }

\* Graph g holds what apply of extension e leaves in it.
Shows(g, e) ==
    CASE e.app = "base" ->
             \A i \in 1 .. Len(BaseOuts(e)) : BaseOuts(e)[i] \in OutSet(g)
      [] e.app = "out" -> OutOf(e) \in OutSet(g)
      [] e.app = "tx" -> Tx(g, Identity(e), 0) = << TxOf(e) >>
      [] OTHER -> TRUE

\* C2: a call of Channel::apply on which no step fails calls the constructor
\* once, then every extender once in ascending identity order, then every
\* modifier once in ascending identity order; what each of them does is in
\* the one TxGraph the call was given; and two calls in a row, with the
\* same extensions, call them in the same order.
C2_State ==
    (op = "apply" /\ result.ok) =>
        LET ne == Len(extenders)
            nm == Len(modifiers)
        IN  /\ Len(calls) = 1 + ne + nm
            /\ \A i \in 1 .. Len(calls) : calls[i].ok
            /\ calls[1].step = <<"ctor", Identity(constructor)>>
            /\ \A i \in 1 .. ne : calls[1 + i].step[1] = "ext"
            /\ \A i \in 1 .. nm : calls[1 + ne + i].step[1] = "mod"
            /\ { calls[1 + i].step[2] : i \in 1 .. ne } = Keys(extenders)
            /\ { calls[1 + ne + i].step[2] : i \in 1 .. nm } = Keys(modifiers)
            /\ \A i \in 1 .. ne - 1 :
                   calls[1 + i].step[2] < calls[1 + i + 1].step[2]
            /\ \A i \in 1 .. nm - 1 :
                   calls[1 + ne + i].step[2] < calls[1 + ne + i + 1].step[2]
            /\ \A e \in Called(Self, calls, Len(calls)) : Shows(tx_graph, e)

C2_Step ==
    (op = "apply" /\ result.ok /\ op' = "apply" /\ result'.ok) =>
        StepsOf(calls') = StepsOf(calls)

C2_ApplyOrder == []C2_State /\ [][C2_Step]_vars

C2_Witness ==
    /\ op = "apply"
    /\ result.ok
    /\ Len(extenders) >= 2
    /\ Len(modifiers) >= 2
    /\ TxGraphLen(tx_graph) >= 2
    /\ Len(tx_graph.cmt_outs) >= 4

\* C4: when a step of Channel::apply fails, the call returns the error of
\* that step, which is the last step called; the steps called are the
\* documented sequence up to it and every step before it succeeded; the
\* TxGraph holds what those earlier steps did to it, and nothing else of it
\* has changed: a failing constructor leaves it as it was.
C4_Step ==
    (op' = "apply" /\ ~result'.ok) =>
        LET n == Len(calls')
            seq == ApplySequence(Self)
            done == Called(Self, calls', n - 1)
        IN  /\ n >= 1
            /\ n <= Len(seq)
            /\ StepsOf(calls') = SubSeq(seq, 1, n)
            /\ \A i \in 1 .. n - 1 : calls'[i].ok
            /\ ~calls'[n].ok
            /\ result' = ErrRes(calls'[n].step)
            /\ \A e \in done : Shows(tx_graph', e)
            /\ n = 1 => tx_graph' = tx_graph
            /\ n > 1 =>
                   /\ OutSet(tx_graph') =
                          { BaseOuts(constructor)[i] :
                                i \in 1 .. Len(BaseOuts(constructor)) }
                              \cup { OutOf(e) : e \in { d \in done : d.app = "out" } }
                   /\ \A role \in Ids :
                          \/ Tx(tx_graph', role, 0) = Tx(tx_graph, role, 0)
                          \/ \E e \in done : e.app = "tx" /\ Identity(e) = role
                   /\ [tx_graph' EXCEPT !.cmt_outs = <<>>, !.graph = <<>>] =
                          [tx_graph EXCEPT !.cmt_outs = <<>>, !.graph = <<>>]

C4_FirstError == [][C4_Step]_vars

C4_Witness ==
    /\ op = "apply"
    /\ ~result.ok
    /\ result.by[1] = "mod"
    /\ Len(calls) < 1 + Len(extenders) + Len(modifiers)
    /\ TxGraphLen(tx_graph) >= 1
    /\ Len(tx_graph.cmt_outs) >= 3

\* C7, as claimed: whatever the modifiers are, the graph has as many
\* transactions and as many commitment outputs after the modifier phase of
\* Channel::apply as it had when that phase began.
SameCounts(g, h) ==
    /\ TxGraphLen(g) = TxGraphLen(h)
    /\ Len(g.cmt_outs) = Len(h.cmt_outs)

KeepsCounts(e) == e.app \in {"sort", "none"}

Stored(g, role, index) ==
    \E i \in 1 .. Len(g.graph) :
        /\ g.graph[i][1] = role
        /\ \E j \in 1 .. Len(g.graph[i][2]) : g.graph[i][2][j][1] = index

Cells(g) == { c \in Roles \X Indices : Stored(g, c[1], c[2]) }

\* Cell c comes before cell d: ascending role, then ascending index.
Before(c, d) == c[1] < d[1] \/ (c[1] = d[1] /\ c[2] < d[2])

Rank(g, c) == Cardinality({ d \in Cells(g) : Before(d, c) })

\* C8: after insert_tx(role, index, p), tx(role, index) is Some(p);
\* insert_tx returns None when (role, index) was vacant and Some(the
\* transaction stored there) when it was occupied; tx(role, index) is None
\* exactly when the graph stores nothing at (role, index), be it the role or
\* the index under it that is absent.
C8_State ==
    /\ op = "insert_tx" =>
           Tx(tx_graph, args.role, args.index) = << args.psbt >>
    /\ op = "tx" =>
           /\ (ret = <<>>) <=> ~Stored(tx_graph, args.role, args.index)
           /\ ret # <<>> => ret[1] \in Psbts
    /\ \A role \in Roles :
           (\A i \in 1 .. Len(tx_graph.graph) : tx_graph.graph[i][1] # role)
               => \A index \in Indices : Tx(tx_graph, role, index) = <<>>

C8_Step ==
    op' = "insert_tx" =>
        /\ ret' = Tx(tx_graph, args'.role, args'.index)
        /\ (ret' = <<>>) <=> ~Stored(tx_graph, args'.role, args'.index)

C8_InsertThenTx == []C8_State /\ [][C8_Step]_vars

C8_Witness ==
    /\ op = "insert_tx"
    /\ ret # <<>>
    /\ ret[1] # args.psbt
    /\ TxGraphLen(tx_graph) = 2

\* C9: render() returns the derived commitment transaction first and then
\* every stored transaction once, by ascending role and, within a role, by
\* ascending index, whatever the order of the insert_tx calls that built the
\* graph.
C9_RenderOrder ==
    op = "render" =>
        /\ Len(ret) = 1 + Cardinality(Cells(tx_graph))
        /\ ret[1] = RenderCmt(tx_graph)
        /\ \A c \in Cells(tx_graph) :
               ret[2 + Rank(tx_graph, c)] = Tx(tx_graph, c[1], c[2])[1]

C9_Witness ==
    /\ op = "render"
    /\ Len(ret) = 3
    /\ Len(tx_graph.graph) = 2
    /\ ret[2] # ret[3]

\* C10, as claimed: the transactions that a GraphIter yields until it first
\* returns None are the stored transactions that render() returns after the
\* commitment transaction, in the same order.
Exhausted ==
    /\ iter # <<>>
    /\ Len(yielded) >= 1
    /\ yielded[Len(yielded)] = <<>>
    /\ \A i \in 1 .. Len(yielded) - 1 : yielded[i] # <<>>

C10_IterEqualsRender ==
    Exhausted =>
        [i \in 1 .. Len(yielded) - 1 |-> yielded[i][1][3]]
            = Tail(Render(tx_graph))

\* The number of transactions the graph stores under the role.
StoredUnder(g, role) == Cardinality({ i \in Indices : Stored(g, role, i) })

\* C11: in every state of a TxGraph, len() is the number of stored
\* (role, index) pairs over all roles, the commitment and the funding
\* transaction not counted, and render() returns len() + 1 transactions; a
\* new TxGraph has len() = 0 and renders one transaction, the derived
\* commitment transaction.
C11_LenAndRender ==
    /\ TxGraphLen(tx_graph) = Cardinality(Cells(tx_graph))
    /\ Len(Render(tx_graph)) = TxGraphLen(tx_graph) + 1
    /\ op = "len" => ret = Cardinality(Cells(tx_graph))
    /\ op = "render" => Len(ret) = TxGraphLen(tx_graph) + 1
    /\ op = "default" =>
           /\ TxGraphLen(tx_graph) = 0
           /\ Render(tx_graph) = << RenderCmt(tx_graph) >>

C11_Witness ==
    /\ op = "len"
    /\ ret = 2
    /\ Len(tx_graph.graph) = 1
    /\ tx_graph.funding_tx # Transaction(2, 0, <<>>, <<>>)

\* C12: last_index(role) is the number of entries stored under the role, 0
\* when the role is absent, also when the stored indices are sparse; it is
\* neither the largest stored index nor that index plus one.
C12_LastIndexCounts ==
    /\ \A role \in Roles :
           LastIndex(tx_graph, role) = StoredUnder(tx_graph, role)
    /\ op = "last_index" =>
           /\ ret = StoredUnder(tx_graph, args.role)
           /\ (\A i \in 1 .. Len(tx_graph.graph) :
                   tx_graph.graph[i][1] # args.role) => ret = 0

\* last_index of a role that stores a transaction at index 1 and none at 0.
C12_Witness ==
    /\ op = "last_index"
    /\ ret = 1
    /\ Stored(tx_graph, args.role, 1)
    /\ ~Stored(tx_graph, args.role, 0)

\* C16: vec_mut() returns one triple (role, index, transaction) per stored
\* entry, with the role and the index the entry is stored under, by
\* ascending role and then ascending index, len() triples in all.
C16_VecMut ==
    op = "vec_mut" =>
        /\ Len(ret) = TxGraphLen(tx_graph)
        /\ Len(ret) = Cardinality(Cells(tx_graph))
        /\ \A c \in Cells(tx_graph) :
               ret[1 + Rank(tx_graph, c)]
                   = <<c[1], c[2], Tx(tx_graph, c[1], c[2])[1]>>

C16_Witness ==
    /\ op = "vec_mut"
    /\ Len(ret) = 2
    /\ ret[1][1] # ret[2][1]
    /\ ret[1][2] = 1
    /\ ret[1][3] # ret[2][3]

\* The graph without its stored transactions: the funding fields and the
\* commitment parameters.
Fields(g) == [g EXCEPT !.graph = <<>>]

\* C19: insert_tx(role, index, p) changes nothing but the entry at
\* (role, index): every other stored entry keeps its value, the funding
\* fields and the commitment parameters are unchanged, len() grows by one
\* when the pair was vacant and stays when it was occupied, and len() never
\* decreases.
C19_Step ==
    /\ op' = "insert_tx" =>
           /\ \A c \in Roles \X Indices :
                  c # <<args'.role, args'.index>> =>
                      Tx(tx_graph', c[1], c[2]) = Tx(tx_graph, c[1], c[2])
           /\ Fields(tx_graph') = Fields(tx_graph)
           /\ TxGraphLen(tx_graph') =
                  TxGraphLen(tx_graph)
                      + (IF Stored(tx_graph, args'.role, args'.index)
                         THEN 0 ELSE 1)
    /\ TxGraphLen(tx_graph') >= TxGraphLen(tx_graph)

C19_InsertFrame == [][C19_Step]_vars

\* A transaction went to a vacant index of a role that stored one already,
\* in a graph whose funding and commitment are not the default ones.
C19_Witness ==
    /\ op = "insert_tx"
    /\ ret = <<>>
    /\ TxGraphLen(tx_graph) = 2
    /\ Len(tx_graph.graph) = 1
    /\ tx_graph.cmt_outs # <<>>

\* tx is the unsigned commitment transaction of the graph's current fields.
CommitmentOf(tx, g) ==
    /\ tx.version = g.cmt_version
    /\ tx.lock_time = g.cmt_locktime
    /\ Len(tx.input) = 1
    /\ tx.input[1].previous_output = g.funding_outpoint
    /\ tx.input[1].script_sig = <<>>
    /\ tx.input[1].witness = <<>>
    /\ tx.input[1].sequence = g.cmt_sequence
    /\ tx.output = g.cmt_outs

\* C13: render_cmt() returns an unsigned transaction with one input, which
\* spends the current funding_outpoint with empty script-sig and witness and
\* the current cmt_sequence, with the current cmt_version and cmt_locktime
\* and the current cmt_outs in their order; it is derived on every call, so
\* after any interleaving of field changes and renders the first element of
\* render() shows the fields as they are at that call.
C13_RenderCmt ==
    /\ op = "render_cmt" => CommitmentOf(ret, tx_graph)
    /\ op = "render" =>
           /\ Len(ret) >= 1
           /\ CommitmentOf(ret[1], tx_graph)

\* A render after every public field was changed, the outputs cleared and
\* pushed in the other order.
C13_Witness ==
    /\ op = "render"
    /\ Len(ret) = 2
    /\ tx_graph.cmt_version = 1
    /\ tx_graph.cmt_locktime = 500
    /\ tx_graph.cmt_sequence = 0
    /\ tx_graph.funding_outpoint = 1
    /\ tx_graph.cmt_outs = << TxOut(1, 2), TxOut(2, 1) >>

\* C14: every triple (role, index, tx) that next yields has tx the
\* transaction stored at (role, index - 1): the role is the one where the
\* transaction was found, the index is the lookup index plus one.
C14_YieldedIndex ==
    \A i \in 1 .. Len(yielded) :
        yielded[i] # <<>> =>
            LET t == yielded[i][1] IN
            /\ t[2] >= 1
            /\ Tx(tx_graph, t[1], t[2] - 1) = << t[3] >>

\* A cursor that found transactions under two roles, one of them at index 1.
C14_Witness ==
    /\ Len(yielded) = 3
    /\ \A i \in 1 .. 3 : yielded[i] # <<>>
    /\ yielded[2][1][2] = 2
    /\ yielded[3][1][1] # yielded[2][1][1]

\* C15, as claimed: once next has returned None, every later call of next on
\* the same cursor over the same graph returns None.
C15_NoneIsFinal ==
    \A i \in 1 .. Len(yielded) :
        yielded[i] = <<>> =>
            \A j \in i .. Len(yielded) : yielded[j] = <<>>

\* The shorter of two sequences is the beginning of the longer.
SameSoFar(s, t) ==
    \A i \in 1 .. Len(s) : i <= Len(t) => s[i] = t[i]

\* C17: two cursors made by iter() on the same unmodified graph and stepped
\* the same number of times return the same results, triples and Nones
\* alike; each cursor starts at role 0, index 0, wherever the cursor before
\* it stood.
C17_State ==
    /\ SameSoFar(yielded, earlier)
    /\ op = "iter" => iter = << [curr_role |-> 0, curr_index |-> 0] >>

C17_Step ==
    (op' = "next" /\ yielded = <<>>) =>
        ret' = (IF Tx(tx_graph, 0, 0) # <<>>
                THEN << <<0, 1, Tx(tx_graph, 0, 0)[1]>> >>
                ELSE IF Tx(tx_graph, 1, 0) # <<>>
                THEN << <<1, 1, Tx(tx_graph, 1, 0)[1]>> >>
                ELSE <<>>)

C17_SameSequence == []C17_State /\ [][C17_Step]_vars

\* The second cursor repeated three results of the first, a None among them.
C17_Witness ==
    /\ Len(earlier) >= 3
    /\ Len(yielded) = 3
    /\ \E i \in 1 .. 3 : yielded[i] = <<>>
    /\ \E i \in 1 .. 3 : yielded[i] # <<>>

\* The stored cells at which an iteration arrives: no index is missing
\* below the cell in its role, and every role from 1 to the cell's has a
\* transaction at index 0.
Arrives(g, c) ==
    /\ Stored(g, c[1], c[2])
    /\ \A i \in 0 .. c[2] : Stored(g, c[1], i)
    /\ \A r \in 1 .. c[1] : Stored(g, r, 0)

Arrived(g) == { c \in Roles \X Indices : Arrives(g, c) }

\* C18: a new cursor stepped until it first returns None yields, in
\* ascending (role, index) order and once each, the stored entries (r, i)
\* with all of 0..i stored under r and with an entry at index 0 of every
\* role from 1 to r, and no other entry; an entry missing at (0, 0) alone
\* does not stop it.
C18_YieldedSet ==
    Exhausted =>
        /\ Len(yielded) - 1 = Cardinality(Arrived(tx_graph))
        /\ \A c \in Arrived(tx_graph) :
               LET k == 1 + Cardinality({ d \in Arrived(tx_graph) :
                                            Before(d, c) })
               IN  yielded[k] = << <<c[1], c[2] + 1,
                                     Tx(tx_graph, c[1], c[2])[1]>> >>

\* Nothing is stored at (0, 0); two entries of role 1 were yielded, and one
\* stored under role 2 after a gap was not.
C18_Witness ==
    /\ Exhausted
    /\ Len(yielded) = 3
    /\ Cardinality(Cells(tx_graph)) = 3
    /\ ~Stored(tx_graph, 0, 0)
    /\ Stored(tx_graph, 2, 1)

\* C20, as claimed: a new cursor returns None within len() + 1 calls of
\* next, and until then curr_role does not pass the largest role: no call
\* overflows it, by a panic or by a wrap to role 0.
C20_Step ==
    (iter # <<>> /\ op' \in {"next", "panic"}
        /\ \A i \in 1 .. Len(yielded) : yielded[i] # <<>>) =>
            /\ op' # "panic"
            /\ iter'[1].curr_role >= iter[1].curr_role
            /\ Len(yielded') <= TxGraphLen(tx_graph) + 1

C20_TerminatesInRange == [][C20_Step]_vars

====
